---- MODULE Spec2Model ----
(***************************************************************************)
(* Model of src/src/main.rs: a probe that builds the typed transactions    *)
(* 0..5 under two fee series (fees=0, then fees=1), submits each through   *)
(* the signing client, awaits its receipt and prints a summary per series. *)
(*                                                                         *)
(* The control state follows the two suspension points of main: the await  *)
(* of client.send_transaction (pc = "A_send" / "B_send") and the await of  *)
(* the pending transaction (pc = "A_await" / "B_await").  The responses of *)
(* the node are inputs, drawn from small sets.  Of the text main prints,   *)
(* the summary lines are kept (out); the progress lines are not modelled.  *)
(* att is a history variable: what happened to each (series, selector).    *)
(* env is the environment main reads at startup; once startup has          *)
(* succeeded only the locals made from it (cfg) are kept.  args and ret    *)
(* are the arguments and the result of a call of build_tx on its own.      *)
(***************************************************************************)
EXTENDS Integers, Sequences, FiniteSets, TLC

VARIABLES pc, env, exit, cfg, tx_type, tx, pending, results, results_one, out,
          att, args, ret

vars == <<pc, env, exit, cfg, tx_type, tx, pending, results, results_one, out,
          att, args, ret>>

---------------------------------------------------------------------------
(* Option<T> *)
None == <<>>
Some(x) == <<x>>

(* Result<T, E> *)
Ok(x) == [ok |-> TRUE, val |-> x]
Err(e) == [ok |-> FALSE, err |-> e]

---------------------------------------------------------------------------
(* Bounds of the model. *)

\* receipt status flags range over 0..MaxStatus
MaxStatus == 1
\* fee values and gas prices given to build_tx alone range over 0..MaxFee
MaxFee == 1

\* the first byte of an address given to format_address is Seed * 17 for a
\* Seed in 0..MaxSeed, and each byte after it is Stride * 7 more than the one
\* before (modulo 256) for a Stride in 0..MaxStride
MaxSeed == 15
MaxStride == 3

(* Program constants. *)

\* as LastType, for the exclusive range 0u8..5u8
LastType_exclusive == 5 - 1

\* as LastType, for the range 0u8..=6u8
LastType_six == 5 + 1

\* for tx_type in 0u8..=5u8
LastType == 5
\* tx_type: u8
MaxU8 == 255

(* Inputs. *)

\* Display text of the errors send_transaction can return
SubmitMsgs == {"nonce too low"}
\* Display text of the errors the pending transaction can return
AwaitMsgs == {"connection closed"}
\* values of the status field of a receipt
Statuses == {None} \cup {Some(s) : s \in 0..MaxStatus}

\* what an environment variable holds: nothing, text its parser rejects, or
\* text its parser accepts
EnvVals == {"unset", "bad", "good"}
Required == {"RPC_URL", "PRIVATE_KEY", "TO_ADDRESS"}
Optional == {"AMOUNT_ETH", "CHAIN_ID", "PRIORITY_GWEI", "FEE_MULTIPLIER"}
EnvChoices == [Required \cup Optional -> EnvVals]

---------------------------------------------------------------------------
(* The pure functions of main.rs. *)

\* TransactionRequest with from, to, value set and gas_price set when given;
\* the fields build_tx never touches (gas, data, nonce, chain_id) stay None
\* and are left out
LegacyRequest(from, to, value, gas_price) ==
    [from |-> Some(from), to |-> Some(to), value |-> Some(value),
     gas_price |-> IF gas_price # None THEN Some(gas_price[1]) ELSE None]

\* as UnsupportedMsg, with the selector written into the text
UnsupportedMsg_fixed(t) ==
    "unsupported by current ethers TypedTransaction (no variant for type 3)"

UnsupportedMsg(t) ==
    "unsupported by current ethers TypedTransaction (no variant for type "
        \o ToString(t) \o ")"

UnknownMsg(t) == "unknown tx type " \o ToString(t)

\* as build_tx, with the two fee fields of selector 2 exchanged
build_tx_swapped(t, from, to, value, gas_price, max_priority_fee_per_gas, max_fee_per_gas) ==
    CASE t = 0 ->
           Ok([type |-> "Legacy",
               req |-> LegacyRequest(from, to, value, gas_price)])
      [] t = 1 ->
           Ok([type |-> "Eip2930",
               req |-> LegacyRequest(from, to, value, gas_price),
               access_list |-> <<>>])
      [] t = 2 ->
           Ok([type |-> "Eip1559",
               req |-> [from |-> Some(from), to |-> Some(to),
                        value |-> Some(value),
                        max_priority_fee_per_gas |-> Some(max_fee_per_gas),
                        max_fee_per_gas |-> Some(max_priority_fee_per_gas)]])
      [] t \in {3, 4, 5} -> Err(UnsupportedMsg(t))
      [] OTHER -> Err(UnknownMsg(t))

\* as build_tx, with the arm `3 | 4 | 5` written as the catch-all `_`
build_tx_catchall(t, from, to, value, gas_price, max_priority_fee_per_gas, max_fee_per_gas) ==
    CASE t = 0 ->
           Ok([type |-> "Legacy",
               req |-> LegacyRequest(from, to, value, gas_price)])
      [] t = 1 ->
           Ok([type |-> "Eip2930",
               req |-> LegacyRequest(from, to, value, gas_price),
               access_list |-> <<>>])
      [] t = 2 ->
           Ok([type |-> "Eip1559",
               req |-> [from |-> Some(from), to |-> Some(to),
                        value |-> Some(value),
                        max_priority_fee_per_gas |-> Some(max_priority_fee_per_gas),
                        max_fee_per_gas |-> Some(max_fee_per_gas)]])
      [] OTHER -> Err(UnsupportedMsg(t))

build_tx(t, from, to, value, gas_price, max_priority_fee_per_gas, max_fee_per_gas) ==
    CASE t = 0 ->
           Ok([type |-> "Legacy",
               req |-> LegacyRequest(from, to, value, gas_price)])
      [] t = 1 ->
           Ok([type |-> "Eip2930",
               req |-> LegacyRequest(from, to, value, gas_price),
               access_list |-> <<>>])
      [] t = 2 ->
           Ok([type |-> "Eip1559",
               req |-> [from |-> Some(from), to |-> Some(to),
                        value |-> Some(value),
                        max_priority_fee_per_gas |-> Some(max_priority_fee_per_gas),
                        max_fee_per_gas |-> Some(max_fee_per_gas)]])
      [] t \in {3, 4, 5} -> Err(UnsupportedMsg(t))
      [] OTHER -> Err(UnknownMsg(t))

\* as ReceiptStatus, with the two arms of the test on the flag exchanged
ReceiptStatus_inverted(status) ==
    IF status # None
    THEN (IF status[1] = 1 THEN "failed" ELSE "success")
    ELSE "unknown"

\* r.status.map(|s| if s.as_u64() == 1 { "success" } else { "failed" })
\*         .unwrap_or("unknown")
ReceiptStatus(status) ==
    IF status # None
    THEN (IF status[1] = 1 THEN "success" ELSE "failed")
    ELSE "unknown"

\* format!("await error: {}", e)
AwaitErrorText(e) == "await error: " \o e

\* as SubmitErrorText, without the message
SubmitErrorText_generic(e) == "submit error"

\* format!("submit error: {}", e)
SubmitErrorText(e) == "submit error: " \o e

---------------------------------------------------------------------------
(* Startup: lines 17-45 of main. *)

\* as FeesA, with no suggested gas price
FeesA_unpriced ==
    [suggested_gas_price |-> None, max_priority_fee_per_gas |-> 0,
     max_fee_per_gas |-> 0]

\* the fee fields of the two series
FeesA == [suggested_gas_price |-> Some(0), max_priority_fee_per_gas |-> 0,
          max_fee_per_gas |-> 0]
FeesB == [suggested_gas_price |-> Some(1), max_priority_fee_per_gas |-> 1,
          max_fee_per_gas |-> 1]

\* the environment once main has read it
Consumed == [v \in Required \cup Optional |-> "read"]

\* as ParsedAmount, with the amount multiplied by the parsed FEE_MULTIPLIER
ParsedAmount_scaled(e) ==
    IF e["FEE_MULTIPLIER"] = "good" THEN "3000000000000000"
    ELSE "2000000000000000"

\* parse_units(&amount_eth, "ether"): the default "0.001", or the text of
\* AMOUNT_ETH, whose accepted value is here "0.001" as well; wei, in decimal
ParsedAmount(e) == "1000000000000000"

\* as StartupError, with TO_ADDRESS read like the optional variables: no
\* error when it is not set
StartupError_optional_to(e) ==
    CASE e["RPC_URL"] = "unset" -> Some("RPC_URL not set")
      [] e["PRIVATE_KEY"] = "unset" -> Some("PRIVATE_KEY not set")
      [] e["CHAIN_ID"] = "bad" -> Some("<ParseIntError>")
      [] e["RPC_URL"] = "bad" -> Some("<url::ParseError>")
      [] e["PRIVATE_KEY"] = "bad" -> Some("<WalletError>")
      [] e["TO_ADDRESS"] = "bad" -> Some("<FromHexError>")
      [] e["AMOUNT_ETH"] = "bad" -> Some("invalid AMOUNT_ETH: <ConversionError>")
      [] OTHER -> None

\* as StartupError, with CHAIN_ID parsed like FEE_MULTIPLIER: unwrap_or on
\* the parse error
StartupError_lenient_chain(e) ==
    CASE e["RPC_URL"] = "unset" -> Some("RPC_URL not set")
      [] e["PRIVATE_KEY"] = "unset" -> Some("PRIVATE_KEY not set")
      [] e["TO_ADDRESS"] = "unset" -> Some("TO_ADDRESS not set")
      [] e["RPC_URL"] = "bad" -> Some("<url::ParseError>")
      [] e["PRIVATE_KEY"] = "bad" -> Some("<WalletError>")
      [] e["TO_ADDRESS"] = "bad" -> Some("<FromHexError>")
      [] e["AMOUNT_ETH"] = "bad" -> Some("invalid AMOUNT_ETH: <ConversionError>")
      [] OTHER -> None

\* the first `?` of lines 20-38 that returns, or None
StartupError(e) ==
    CASE e["RPC_URL"] = "unset" -> Some("RPC_URL not set")
      [] e["PRIVATE_KEY"] = "unset" -> Some("PRIVATE_KEY not set")
      [] e["TO_ADDRESS"] = "unset" -> Some("TO_ADDRESS not set")
      [] e["CHAIN_ID"] = "bad" -> Some("<ParseIntError>")
      [] e["RPC_URL"] = "bad" -> Some("<url::ParseError>")
      [] e["PRIVATE_KEY"] = "bad" -> Some("<WalletError>")
      [] e["TO_ADDRESS"] = "bad" -> Some("<FromHexError>")
      [] e["AMOUNT_ETH"] = "bad" -> Some("invalid AMOUNT_ETH: <ConversionError>")
      [] OTHER -> None

\* what has been done for one (series, selector): the calls of build_tx,
\* send_transaction and pending.await made for it, and what each returned
NoAttempt == [builds |-> 0, build_err |-> None, sends |-> 0, tx |-> None,
              send_ret |-> None, awaits |-> 0, await_ret |-> None]

Series == {"A", "B"}
Attempts == Series \X (0..LastType)

StartupFatal ==
    /\ pc = "startup"
    /\ StartupError(env) # None
    /\ pc' = "fatal"
    /\ exit' = Some(Err(StartupError(env)[1]))
    /\ UNCHANGED <<env, cfg, tx_type, tx, pending, results, results_one, out,
                   att, args, ret>>

StartupOk ==
    /\ pc = "startup"
    /\ StartupError(env) = None
    /\ cfg' = Some([from |-> "from", to |-> "to", value |-> ParsedAmount(env)])
    /\ env' = Consumed
    /\ results' = <<>>
    /\ tx_type' = 0
    /\ pc' = "A_build"
    /\ UNCHANGED <<exit, tx, pending, results_one, out, att, args, ret>>

---------------------------------------------------------------------------
(* Series A: fees set to 0 (lines 47-106). *)

\* build_tx returned Ok(tx): client.send_transaction(tx, None) is called
A_BuildOk ==
    /\ pc = "A_build"
    /\ tx_type <= LastType
    /\ LET r == build_tx(tx_type, cfg[1].from, cfg[1].to, cfg[1].value,
                         FeesA.suggested_gas_price,
                         FeesA.max_priority_fee_per_gas, FeesA.max_fee_per_gas)
           a == att[<<"A", tx_type>>]
       IN /\ r.ok
          /\ tx' = Some(r.val)
          /\ att' = [att EXCEPT ![<<"A", tx_type>>] =
                        [a EXCEPT !.builds = a.builds + 1, !.tx = Some(r.val),
                                  !.sends = a.sends + 1]]
    /\ pc' = "A_send"
    /\ UNCHANGED <<env, exit, cfg, tx_type, pending, results, results_one, out,
                   args, ret>>

\* build_tx returned Err(e): the Skipping arm
A_BuildErr ==
    /\ pc = "A_build"
    /\ tx_type <= LastType
    /\ LET r == build_tx(tx_type, cfg[1].from, cfg[1].to, cfg[1].value,
                         FeesA.suggested_gas_price,
                         FeesA.max_priority_fee_per_gas, FeesA.max_fee_per_gas)
           a == att[<<"A", tx_type>>]
       IN /\ ~r.ok
          /\ att' = [att EXCEPT ![<<"A", tx_type>>] =
                        [a EXCEPT !.builds = a.builds + 1,
                                  !.build_err = Some(r.err)]]
    /\ results' = Append(results, <<tx_type, "unsupported">>)
    /\ tx_type' = tx_type + 1
    /\ UNCHANGED <<pc, env, exit, cfg, tx, pending, results_one, out, args, ret>>

\* as A_SendOk, without awaiting the pending transaction: the loop goes on
A_SendOk_detached ==
    /\ pc = "A_send"
    /\ LET a == att[<<"A", tx_type>>]
       IN att' = [att EXCEPT ![<<"A", tx_type>>] =
                     [a EXCEPT !.send_ret = Some(Ok("hash"))]]
    /\ pending' = Some("hash")
    /\ tx' = None
    /\ tx_type' = tx_type + 1
    /\ pc' = "A_build"
    /\ UNCHANGED <<env, exit, cfg, results, results_one, out, args, ret>>

\* send_transaction returned Ok(pending): pending.await starts
A_SendOk ==
    /\ pc = "A_send"
    /\ LET a == att[<<"A", tx_type>>]
       IN att' = [att EXCEPT ![<<"A", tx_type>>] =
                     [a EXCEPT !.send_ret = Some(Ok("hash")),
                               !.awaits = a.awaits + 1]]
    /\ pending' = Some("hash")
    /\ tx' = None
    /\ pc' = "A_await"
    /\ UNCHANGED <<env, exit, cfg, tx_type, results, results_one, out, args, ret>>

\* as A_SendErr, building and submitting the same selector again
A_SendErr_retry ==
    /\ pc = "A_send"
    /\ \E e \in SubmitMsgs :
         LET a == att[<<"A", tx_type>>]
         IN att' = [att EXCEPT ![<<"A", tx_type>>] =
                       [a EXCEPT !.send_ret = Some(Err(e))]]
    /\ tx' = None
    /\ pc' = "A_build"
    /\ UNCHANGED <<env, exit, cfg, tx_type, pending, results, results_one, out,
                   args, ret>>

\* send_transaction returned Err(e)
A_SendErr ==
    /\ pc = "A_send"
    /\ \E e \in SubmitMsgs :
         /\ results' = Append(results, <<tx_type, SubmitErrorText(e)>>)
         /\ LET a == att[<<"A", tx_type>>]
            IN att' = [att EXCEPT ![<<"A", tx_type>>] =
                          [a EXCEPT !.send_ret = Some(Err(e))]]
    /\ tx' = None
    /\ tx_type' = tx_type + 1
    /\ pc' = "A_build"
    /\ UNCHANGED <<env, exit, cfg, pending, results_one, out, args, ret>>

\* pending.await returned Ok(Some(r))
A_AwaitReceipt ==
    /\ pc = "A_await"
    /\ \E status \in Statuses :
         /\ results' = Append(results, <<tx_type, ReceiptStatus(status)>>)
         /\ LET a == att[<<"A", tx_type>>]
            IN att' = [att EXCEPT ![<<"A", tx_type>>] =
                          [a EXCEPT !.await_ret = Some(Ok(Some(status)))]]
    /\ pending' = None
    /\ tx_type' = tx_type + 1
    /\ pc' = "A_build"
    /\ UNCHANGED <<env, exit, cfg, tx, results_one, out, args, ret>>

\* as A_AwaitNone, with the result vector begun anew
A_AwaitNone_restart ==
    /\ pc = "A_await"
    /\ results' = <<<<tx_type, "pending">>>>
    /\ LET a == att[<<"A", tx_type>>]
       IN att' = [att EXCEPT ![<<"A", tx_type>>] =
                     [a EXCEPT !.await_ret = Some(Ok(None))]]
    /\ pending' = None
    /\ tx_type' = tx_type + 1
    /\ pc' = "A_build"
    /\ UNCHANGED <<env, exit, cfg, tx, results_one, out, args, ret>>

\* pending.await returned Ok(None)
A_AwaitNone ==
    /\ pc = "A_await"
    /\ results' = Append(results, <<tx_type, "pending">>)
    /\ LET a == att[<<"A", tx_type>>]
       IN att' = [att EXCEPT ![<<"A", tx_type>>] =
                     [a EXCEPT !.await_ret = Some(Ok(None))]]
    /\ pending' = None
    /\ tx_type' = tx_type + 1
    /\ pc' = "A_build"
    /\ UNCHANGED <<env, exit, cfg, tx, results_one, out, args, ret>>

\* as A_AwaitErr, with the error returned from main by `?`
A_AwaitErr_abort ==
    /\ pc = "A_await"
    /\ \E e \in AwaitMsgs :
         /\ exit' = Some(Err(e))
         /\ LET a == att[<<"A", tx_type>>]
            IN att' = [att EXCEPT ![<<"A", tx_type>>] =
                          [a EXCEPT !.await_ret = Some(Err(e))]]
    /\ pending' = None
    /\ pc' = "fatal"
    /\ UNCHANGED <<env, cfg, tx_type, tx, results, results_one, out, args, ret>>

\* pending.await returned Err(e)
A_AwaitErr ==
    /\ pc = "A_await"
    /\ \E e \in AwaitMsgs :
         /\ results' = Append(results, <<tx_type, AwaitErrorText(e)>>)
         /\ LET a == att[<<"A", tx_type>>]
            IN att' = [att EXCEPT ![<<"A", tx_type>>] =
                          [a EXCEPT !.await_ret = Some(Err(e))]]
    /\ pending' = None
    /\ tx_type' = tx_type + 1
    /\ pc' = "A_build"
    /\ UNCHANGED <<env, exit, cfg, tx, results_one, out, args, ret>>

\* as SummaryLines, going through the vector from its end
SummaryLines_reversed(heading, rs) ==
    [i \in 1..Len(rs) |->
        [series |-> heading, t |-> rs[Len(rs) + 1 - i][1],
         status |-> rs[Len(rs) + 1 - i][2]]]

\* the lines "  type-{}: {}" printed for a result vector under a heading
SummaryLines(heading, rs) ==
    [i \in 1..Len(rs) |-> [series |-> heading, t |-> rs[i][1], status |-> rs[i][2]]]

\* the loop of series A is over: its summary is printed and series B begins
A_Summary ==
    /\ pc = "A_build"
    /\ tx_type > LastType
    /\ out' = out \o SummaryLines("fees=0", results)
    /\ results_one' = <<>>
    /\ tx_type' = 0
    /\ pc' = "B_build"
    /\ UNCHANGED <<env, exit, cfg, tx, pending, results, att, args, ret>>

---------------------------------------------------------------------------
(* Series B: fees set to 1 (lines 108-171). *)

\* build_tx returned Ok(tx): client.send_transaction(tx, None) is called
B_BuildOk ==
    /\ pc = "B_build"
    /\ tx_type <= LastType
    /\ LET r == build_tx(tx_type, cfg[1].from, cfg[1].to, cfg[1].value,
                         FeesB.suggested_gas_price,
                         FeesB.max_priority_fee_per_gas, FeesB.max_fee_per_gas)
           a == att[<<"B", tx_type>>]
       IN /\ r.ok
          /\ tx' = Some(r.val)
          /\ att' = [att EXCEPT ![<<"B", tx_type>>] =
                        [a EXCEPT !.builds = a.builds + 1, !.tx = Some(r.val),
                                  !.sends = a.sends + 1]]
    /\ pc' = "B_send"
    /\ UNCHANGED <<env, exit, cfg, tx_type, pending, results, results_one, out,
                   args, ret>>

\* build_tx returned Err(e): the Skipping arm
B_BuildErr ==
    /\ pc = "B_build"
    /\ tx_type <= LastType
    /\ LET r == build_tx(tx_type, cfg[1].from, cfg[1].to, cfg[1].value,
                         FeesB.suggested_gas_price,
                         FeesB.max_priority_fee_per_gas, FeesB.max_fee_per_gas)
           a == att[<<"B", tx_type>>]
       IN /\ ~r.ok
          /\ att' = [att EXCEPT ![<<"B", tx_type>>] =
                        [a EXCEPT !.builds = a.builds + 1,
                                  !.build_err = Some(r.err)]]
    /\ results_one' = Append(results_one, <<tx_type, "unsupported">>)
    /\ tx_type' = tx_type + 1
    /\ UNCHANGED <<pc, env, exit, cfg, tx, pending, results, out, args, ret>>

\* send_transaction returned Ok(pending): pending.await starts
B_SendOk ==
    /\ pc = "B_send"
    /\ LET a == att[<<"B", tx_type>>]
       IN att' = [att EXCEPT ![<<"B", tx_type>>] =
                     [a EXCEPT !.send_ret = Some(Ok("hash")),
                               !.awaits = a.awaits + 1]]
    /\ pending' = Some("hash")
    /\ tx' = None
    /\ pc' = "B_await"
    /\ UNCHANGED <<env, exit, cfg, tx_type, results, results_one, out, args, ret>>

\* as B_SendErr, with the failed submission awaited all the same
B_SendErr_await ==
    /\ pc = "B_send"
    /\ \E e \in SubmitMsgs :
         LET a == att[<<"B", tx_type>>]
         IN att' = [att EXCEPT ![<<"B", tx_type>>] =
                       [a EXCEPT !.send_ret = Some(Err(e)),
                                 !.awaits = a.awaits + 1]]
    /\ pending' = Some("hash")
    /\ tx' = None
    /\ pc' = "B_await"
    /\ UNCHANGED <<env, exit, cfg, tx_type, results, results_one, out, args, ret>>

\* send_transaction returned Err(e)
B_SendErr ==
    /\ pc = "B_send"
    /\ \E e \in SubmitMsgs :
         /\ results_one' = Append(results_one, <<tx_type, SubmitErrorText(e)>>)
         /\ LET a == att[<<"B", tx_type>>]
            IN att' = [att EXCEPT ![<<"B", tx_type>>] =
                          [a EXCEPT !.send_ret = Some(Err(e))]]
    /\ tx' = None
    /\ tx_type' = tx_type + 1
    /\ pc' = "B_build"
    /\ UNCHANGED <<env, exit, cfg, pending, results, out, args, ret>>

\* pending.await returned Ok(Some(r))
B_AwaitReceipt ==
    /\ pc = "B_await"
    /\ \E status \in Statuses :
         /\ results_one' = Append(results_one, <<tx_type, ReceiptStatus(status)>>)
         /\ LET a == att[<<"B", tx_type>>]
            IN att' = [att EXCEPT ![<<"B", tx_type>>] =
                          [a EXCEPT !.await_ret = Some(Ok(Some(status)))]]
    /\ pending' = None
    /\ tx_type' = tx_type + 1
    /\ pc' = "B_build"
    /\ UNCHANGED <<env, exit, cfg, tx, results, out, args, ret>>

\* as B_AwaitNone, for a wait given up after a time: "pending" is recorded
\* though the pending transaction has returned nothing
B_AwaitNone_timeout ==
    /\ pc = "B_await"
    /\ results_one' = Append(results_one, <<tx_type, "pending">>)
    /\ pending' = None
    /\ tx_type' = tx_type + 1
    /\ pc' = "B_build"
    /\ UNCHANGED <<env, exit, cfg, tx, results, out, att, args, ret>>

\* pending.await returned Ok(None)
B_AwaitNone ==
    /\ pc = "B_await"
    /\ results_one' = Append(results_one, <<tx_type, "pending">>)
    /\ LET a == att[<<"B", tx_type>>]
       IN att' = [att EXCEPT ![<<"B", tx_type>>] =
                     [a EXCEPT !.await_ret = Some(Ok(None))]]
    /\ pending' = None
    /\ tx_type' = tx_type + 1
    /\ pc' = "B_build"
    /\ UNCHANGED <<env, exit, cfg, tx, results, out, args, ret>>

\* as B_AwaitErr, without the error's text in the outcome
B_AwaitErr_short ==
    /\ pc = "B_await"
    /\ \E e \in AwaitMsgs :
         /\ results_one' = Append(results_one, <<tx_type, "await error">>)
         /\ LET a == att[<<"B", tx_type>>]
            IN att' = [att EXCEPT ![<<"B", tx_type>>] =
                          [a EXCEPT !.await_ret = Some(Err(e))]]
    /\ pending' = None
    /\ tx_type' = tx_type + 1
    /\ pc' = "B_build"
    /\ UNCHANGED <<env, exit, cfg, tx, results, out, args, ret>>

\* pending.await returned Err(e)
B_AwaitErr ==
    /\ pc = "B_await"
    /\ \E e \in AwaitMsgs :
         /\ results_one' = Append(results_one, <<tx_type, AwaitErrorText(e)>>)
         /\ LET a == att[<<"B", tx_type>>]
            IN att' = [att EXCEPT ![<<"B", tx_type>>] =
                          [a EXCEPT !.await_ret = Some(Err(e))]]
    /\ pending' = None
    /\ tx_type' = tx_type + 1
    /\ pc' = "B_build"
    /\ UNCHANGED <<env, exit, cfg, tx, results, out, args, ret>>

\* the loop of series B is over: its summary is printed and main returns Ok(())
B_Summary ==
    /\ pc = "B_build"
    /\ tx_type > LastType
    /\ out' = out \o SummaryLines("fees=1", results_one)
    /\ exit' = Some(Ok(<<>>))
    /\ pc' = "done"
    /\ UNCHANGED <<env, cfg, tx_type, tx, pending, results, results_one, att,
                   args, ret>>

---------------------------------------------------------------------------
Init ==
    /\ pc = "startup"
    /\ env \in EnvChoices
    /\ exit = None
    /\ cfg = None
    /\ tx_type = 0
    /\ tx = None
    /\ pending = None
    /\ results = <<>>
    /\ results_one = <<>>
    /\ out = <<>>
    /\ att = [p \in Attempts |-> NoAttempt]
    /\ args = None
    /\ ret = None

Next ==
    \/ StartupFatal
    \/ StartupOk
    \/ A_BuildOk
    \/ A_BuildErr
    \/ A_SendOk
    \/ A_SendErr
    \/ A_AwaitReceipt
    \/ A_AwaitNone
    \/ A_AwaitErr
    \/ A_Summary
    \/ B_BuildOk
    \/ B_BuildErr
    \/ B_SendOk
    \/ B_SendErr
    \/ B_AwaitReceipt
    \/ B_AwaitNone
    \/ B_AwaitErr
    \/ B_Summary

Spec == Init /\ [][Next]_vars

\* main runs on when it can, and every call of send_transaction and every
\* wait for a pending transaction returns
FairSpec == Spec /\ WF_vars(Next)

---------------------------------------------------------------------------
(* build_tx on its own: one call on arguments drawn from BuildInputs. *)

Addrs == {"0x00000000000000000000000000000000000000a1",
          "0x00000000000000000000000000000000000000b2"}
Values == {"0", "1000000000000000"}
GasPrices == {None} \cup {Some(g) : g \in 0..MaxFee}

BuildInputs ==
    [t : 0..MaxU8, from : Addrs, to : Addrs, value : Values,
     gas_price : GasPrices,
     max_priority_fee_per_gas : 0..MaxFee, max_fee_per_gas : 0..MaxFee]

InitBuild ==
    /\ pc = "call"
    /\ args \in {Some(i) : i \in BuildInputs}
    /\ ret = None
    /\ env = Consumed
    /\ exit = None
    /\ cfg = None
    /\ tx_type = 0
    /\ tx = None
    /\ pending = None
    /\ results = <<>>
    /\ results_one = <<>>
    /\ out = <<>>
    /\ att = [p \in Attempts |-> NoAttempt]

BuildCall ==
    /\ pc = "call"
    /\ LET i == args[1]
       IN ret' = Some(build_tx(i.t, i.from, i.to, i.value, i.gas_price,
                               i.max_priority_fee_per_gas, i.max_fee_per_gas))
    /\ pc' = "returned"
    /\ UNCHANGED <<env, exit, cfg, tx_type, tx, pending, results, results_one,
                   out, att, args>>

SpecBuild == InitBuild /\ [][BuildCall]_vars

---------------------------------------------------------------------------
(* format_address on its own: one call on an address drawn from FormatInputs.
   Text is a sequence of characters here, each character written as a string
   of length 1, and the character U+2026 (horizontal ellipsis) as "U+2026",
   so that Len counts characters. *)

\* Address is H160
AddressBytes == 20

HexDigits == <<"0", "1", "2", "3", "4", "5", "6", "7",
               "8", "9", "a", "b", "c", "d", "e", "f">>

\* the two lower-case hex digits of a byte
HexByte(b) == <<HexDigits[(b \div 16) + 1], HexDigits[(b % 16) + 1]>>

\* {:x} of a sequence of bytes: every byte, two digits each
RECURSIVE LowerHex(_)
LowerHex(bytes) ==
    IF bytes = <<>> THEN <<>> ELSE HexByte(Head(bytes)) \o LowerHex(Tail(bytes))

Ellipsis == "U+2026"

\* as format_address, keeping the first 10 characters: "0x" and 8 hex digits
format_address_ten(addr) ==
    LET s == <<"0", "x">> \o LowerHex(addr)
    IN IF Len(s) > 12
       THEN SubSeq(s, 1, 10) \o <<Ellipsis>> \o SubSeq(s, Len(s) - 3, Len(s))
       ELSE s

format_address(addr) ==
    LET s == <<"0", "x">> \o LowerHex(addr)
    IN IF Len(s) > 12
       THEN SubSeq(s, 1, 8) \o <<Ellipsis>> \o SubSeq(s, Len(s) - 3, Len(s))
       ELSE s

FormatInputs ==
    {[i \in 1..AddressBytes |-> (seed * 17 + (i - 1) * stride * 7) % 256] :
        seed \in 0..MaxSeed, stride \in 0..MaxStride}

InitFormat ==
    /\ pc = "format_call"
    /\ args \in {Some(a) : a \in FormatInputs}
    /\ ret = None
    /\ env = Consumed
    /\ exit = None
    /\ cfg = None
    /\ tx_type = 0
    /\ tx = None
    /\ pending = None
    /\ results = <<>>
    /\ results_one = <<>>
    /\ out = <<>>
    /\ att = [p \in Attempts |-> NoAttempt]

FormatCall ==
    /\ pc = "format_call"
    /\ ret' = Some(format_address(args[1]))
    /\ pc' = "format_returned"
    /\ UNCHANGED <<env, exit, cfg, tx_type, tx, pending, results, results_one,
                   out, att, args>>

SpecFormat == InitFormat /\ [][FormatCall]_vars

---------------------------------------------------------------------------
(* What the claims read off a state. *)

\* the result vector of a series
ResultsOf(s) == IF s = "A" THEN results ELSE results_one

\* the heading of the summary of a series
HeadingOf(s) == IF s = "A" THEN "fees=0" ELSE "fees=1"

\* the places of selector t in the result vector of series s
PlacesOf(s, t) == {i \in DOMAIN ResultsOf(s) : ResultsOf(s)[i][1] = t}

Recorded(s, t) == \E i \in DOMAIN ResultsOf(s) : ResultsOf(s)[i][1] = t

\* the outcome recorded for selector t in series s
OutcomeOf(s, t) == ResultsOf(s)[CHOOSE i \in PlacesOf(s, t) : TRUE][2]

\* the summary lines printed under a heading
SummaryOf(h) == SelectSeq(out, LAMBDA l : l.series = h)

\* ls is a complete summary: 6 lines, one per selector 0..5
CompleteSummary(ls) ==
    /\ Len(ls) = 6
    /\ \A t \in 0..5 : Cardinality({i \in 1..Len(ls) : ls[i].t = t}) = 1

\* the status the summary lines ls show for selector t
ShownFor(ls, t) == ls[CHOOSE i \in 1..Len(ls) : ls[i].t = t].status

---------------------------------------------------------------------------
\* C1: once startup has succeeded the run is never aborted, and the summary
\* of each fee series, once printed, has exactly 6 entries, one for each
\* selector 0..5, each with a non-empty outcome, whatever the build, submit
\* and await outcomes were; a finished run has printed both summaries.
C1_SummaryComplete ==
    /\ cfg # None => pc # "fatal"
    /\ \A h \in {"fees=0", "fees=1"} :
         LET ls == SummaryOf(h)
         IN (pc = "done" \/ ls # <<>>) =>
               /\ CompleteSummary(ls)
               /\ \A i \in 1..Len(ls) : ls[i].status # ""

\* a finished run in which a submission failed, a wait failed and a receipt came
C1_Witness ==
    /\ pc = "done"
    /\ att[<<"A", 0>>].send_ret = Some(Err("nonce too low"))
    /\ att[<<"B", 1>>].await_ret = Some(Err("connection closed"))
    /\ att[<<"B", 2>>].await_ret = Some(Ok(Some(Some(1))))

\* C2: a failed submission is recorded verbatim as "submit error: <message>"
\* for its selector, is never retried nor awaited, and does not end the run;
\* when every submission fails with the same message m the run returns Ok and
\* both summaries show "submit error: m" for selectors 0, 1, 2 and
\* "unsupported" for 3, 4, 5.
C2_SubmitErrorRecorded ==
    /\ \A p \in Attempts :
         LET a == att[p]
         IN /\ a.sends <= 1
            /\ (a.send_ret # None /\ ~a.send_ret[1].ok) =>
                  /\ Recorded(p[1], p[2])
                  /\ OutcomeOf(p[1], p[2]) = "submit error: " \o a.send_ret[1].err
                  /\ a.awaits = 0
                  /\ pc # "fatal"
    /\ pc = "done" =>
         \A m \in SubmitMsgs :
            (\A p \in Attempts : att[p].sends > 0 => att[p].send_ret = Some(Err(m)))
            => /\ exit = Some(Ok(<<>>))
               /\ \A h \in {"fees=0", "fees=1"} :
                    LET ls == SummaryOf(h)
                    IN /\ CompleteSummary(ls)
                       /\ \A t \in {0, 1, 2} :
                            ShownFor(ls, t) = "submit error: " \o m
                       /\ \A t \in {3, 4, 5} : ShownFor(ls, t) = "unsupported"
                       /\ m = "nonce too low" =>
                            ShownFor(ls, 0) = "submit error: nonce too low"

\* a finished run in which every submission failed with "nonce too low"
C2_Witness ==
    /\ pc = "done"
    /\ \A s \in Series : \A t \in {0, 1, 2} :
         att[<<s, t>>].send_ret = Some(Err("nonce too low"))

\* C3: what the wait returned for a submitted transaction is recorded, under
\* its own selector in its own series, as "success" (receipt, status 1),
\* "failed" (receipt, any other status), "unknown" (receipt, no status) or
\* "pending" (no receipt); a run with a status-less receipt for selector 0
\* and a status-1 receipt for selector 2 shows type-0: unknown, type-2: success.
C3_ReceiptClassified ==
    /\ \A p \in Attempts :
         LET r == att[p].await_ret
         IN (r # None /\ r[1].ok) =>
               /\ att[p].send_ret = Some(Ok("hash"))
               /\ Recorded(p[1], p[2])
               /\ LET o == OutcomeOf(p[1], p[2])
                      receipt == r[1].val
                  IN /\ receipt = None => o = "pending"
                     /\ receipt = Some(None) => o = "unknown"
                     /\ receipt = Some(Some(1)) => o = "success"
                     /\ (\E f \in 0..MaxStatus : f # 1 /\ receipt = Some(Some(f)))
                           => o = "failed"
                     /\ o \in {"pending", "unknown", "success", "failed"}
    /\ \A s \in Series :
         LET ls == SummaryOf(HeadingOf(s))
         IN (/\ ls # <<>>
             /\ att[<<s, 0>>].await_ret = Some(Ok(Some(None)))
             /\ att[<<s, 2>>].await_ret = Some(Ok(Some(Some(1)))))
            => /\ ShownFor(ls, 0) = "unknown"
               /\ ShownFor(ls, 2) = "success"

\* the scenario of the spec, with a failed receipt and a missing one as well
C3_Witness ==
    /\ pc = "done"
    /\ att[<<"A", 0>>].await_ret = Some(Ok(Some(None)))
    /\ att[<<"A", 2>>].await_ret = Some(Ok(Some(Some(1))))
    /\ att[<<"B", 0>>].await_ret = Some(Ok(Some(Some(0))))
    /\ att[<<"B", 1>>].await_ret = Some(Ok(None))

\* C4: a failed wait is recorded as "await error: <message>" for its selector
\* and does not end the probe: the run is not aborted, and when it is over
\* every selector of both series has been built and recorded.
C4_AwaitErrorRecorded ==
    /\ \A p \in Attempts :
         LET r == att[p].await_ret
         IN (r # None /\ ~r[1].ok) =>
               /\ Recorded(p[1], p[2])
               /\ OutcomeOf(p[1], p[2]) = "await error: " \o r[1].err
               /\ pc # "fatal"
               /\ exit \in {None, Some(Ok(<<>>))}
    /\ pc = "done" =>
         \A s \in Series : \A t \in 0..5 :
            att[<<s, t>>].builds = 1 /\ Recorded(s, t)

\* a finished run whose first wait failed and whose later attempts went on
C4_Witness ==
    /\ pc = "done"
    /\ att[<<"A", 0>>].await_ret = Some(Err("connection closed"))
    /\ OutcomeOf("A", 0) = "await error: connection closed"
    /\ OutcomeOf("A", 1) = "success"
    /\ OutcomeOf("B", 2) = "pending"

---------------------------------------------------------------------------
\* the text of the unsupported-type error for selectors 3, 4 and 5
UnsupportedText(t) ==
    CASE t = 3 -> "unsupported by current ethers TypedTransaction (no variant for type 3)"
      [] t = 4 -> "unsupported by current ethers TypedTransaction (no variant for type 4)"
      [] t = 5 -> "unsupported by current ethers TypedTransaction (no variant for type 5)"

\* C5: for selectors 0, 1 and 2 build_tx never fails and returns a
\* transaction with the given sender, recipient and value; selectors 0 and 1
\* carry exactly one fee field, gas_price, equal to the suggested gas price
\* when there is one and absent when there is none (selector 1 with an empty
\* access list as well); selector 2 carries max_priority_fee_per_gas and
\* max_fee_per_gas as given and no gas_price field.
C5_BuildSupported ==
    (ret # None /\ args[1].t \in {0, 1, 2}) =>
       LET i == args[1]
           r == ret[1]
       IN /\ r.ok
          /\ r.val.req.from = Some(i.from)
          /\ r.val.req.to = Some(i.to)
          /\ r.val.req.value = Some(i.value)
          /\ i.t \in {0, 1} =>
                /\ DOMAIN r.val.req = {"from", "to", "value", "gas_price"}
                /\ \A g \in 0..MaxFee :
                     i.gas_price = Some(g) => r.val.req.gas_price = Some(g)
                /\ i.gas_price = None => r.val.req.gas_price = None
          /\ i.t = 0 => r.val.type = "Legacy" /\ DOMAIN r.val = {"type", "req"}
          /\ i.t = 1 =>
                /\ r.val.type = "Eip2930"
                /\ DOMAIN r.val = {"type", "req", "access_list"}
                /\ r.val.access_list = <<>>
          /\ i.t = 2 =>
                /\ r.val.type = "Eip1559"
                /\ DOMAIN r.val = {"type", "req"}
                /\ DOMAIN r.val.req = {"from", "to", "value",
                                       "max_priority_fee_per_gas", "max_fee_per_gas"}
                /\ r.val.req.max_priority_fee_per_gas
                      = Some(i.max_priority_fee_per_gas)
                /\ r.val.req.max_fee_per_gas = Some(i.max_fee_per_gas)

\* build_tx has returned for selector 2 with two different fee values
C5_Witness ==
    /\ pc = "returned"
    /\ args[1].t = 2
    /\ args[1].max_priority_fee_per_gas = 0
    /\ args[1].max_fee_per_gas = 1
    /\ args[1].gas_price = None
    /\ ret[1].ok

\* build_tx fails for selectors 3, 4, 5 on every input of BuildInputs, with
\* the unsupported-type text of that selector
C6_BuildAlwaysFails ==
    \A i \in {j \in BuildInputs : j.t \in {3, 4, 5}} :
       build_tx(i.t, i.from, i.to, i.value, i.gas_price,
                i.max_priority_fee_per_gas, i.max_fee_per_gas)
          = Err(UnsupportedText(i.t))

\* C6: build_tx fails for selectors 3, 4 and 5 with the unsupported-type
\* error naming that selector, whatever the fee profile and the value; main
\* records such a selector as "unsupported" and never submits nor awaits it.
C6_UnsupportedSkipped ==
    /\ C6_BuildAlwaysFails
    /\ \A s \in Series : \A t \in {3, 4, 5} :
         LET a == att[<<s, t>>]
         IN /\ a.sends = 0
            /\ a.awaits = 0
            /\ a.tx = None
            /\ a.send_ret = None
            /\ a.await_ret = None
            /\ a.builds > 0 =>
                  /\ a.build_err = Some(UnsupportedText(t))
                  /\ Recorded(s, t)
                  /\ OutcomeOf(s, t) = "unsupported"
    /\ (pc \in {"A_send", "A_await", "B_send", "B_await"}) => tx_type \notin {3, 4, 5}

\* a finished run: selectors 3, 4 and 5 of both series were built and skipped
C6_Witness ==
    /\ pc = "done"
    /\ \A s \in Series : \A t \in {3, 4, 5} :
         att[<<s, t>>].builds = 1 /\ OutcomeOf(s, t) = "unsupported"

\* C7: for every selector 6..255 build_tx fails with the unknown-type error
\* "unknown tx type <selector>", which is none of the unsupported-type errors
\* of selectors 3, 4 and 5, and returns no transaction.
C7_UnknownType ==
    (ret # None /\ args[1].t \in 6..255) =>
       LET r == ret[1]
       IN /\ ~r.ok
          /\ DOMAIN r = {"ok", "err"}
          /\ r.err = "unknown tx type " \o ToString(args[1].t)
          /\ SubSeq(r.err, 1, 16) = "unknown tx type "
          /\ r.err \notin {UnsupportedText(3), UnsupportedText(4), UnsupportedText(5)}

\* build_tx has returned for the largest selector
C7_Witness ==
    /\ pc = "returned"
    /\ args[1].t = 255
    /\ ret = Some(Err("unknown tx type 255"))

---------------------------------------------------------------------------
\* the attempts whose submission was issued and whose outcome is not recorded
Unresolved == {p \in Attempts : att[p].sends > 0 /\ ~Recorded(p[1], p[2])}

\* C8: at most one submitted transaction is unresolved at any time, and it
\* is the one of the selector the loop is at: the next submission is issued
\* only once the outcome of the previous attempt has been appended.
C8_OneInFlight ==
    /\ Cardinality(Unresolved) <= 1
    /\ \A p \in Unresolved :
         /\ tx_type = p[2]
         /\ pc \in (IF p[1] = "A" THEN {"A_send", "A_await"}
                    ELSE {"B_send", "B_await"})
    /\ Cardinality({p \in Attempts : att[p].awaits > 0 /\ att[p].await_ret = None}) <= 1

\* series B waits for the receipt of selector 1 with everything before recorded
C8_Witness ==
    /\ pc = "B_await"
    /\ tx_type = 1
    /\ Unresolved = {<<"B", 1>>}
    /\ Len(results) = 6
    /\ Len(results_one) = 1

\* the fee fields a built transaction carries
FeeFields(x) ==
    IF x.type = "Eip1559"
    THEN {x.req.max_priority_fee_per_gas, x.req.max_fee_per_gas}
    ELSE {x.req.gas_price}

\* C9: the attempts are made in the order A0..A5, B0..B5 (selector t of a
\* series is built only when t outcomes of the series are recorded, and
\* series B only when series A has its 6), series A with all fee fields 0 and
\* series B with all fee fields 1; outcomes are appended in ascending selector
\* order, each for an attempt that was made; a summary is printed only when
\* its 6 attempts are recorded, lists them in ascending selector order, and
\* the summary of series A is printed before the first attempt of series B.
C9_FixedOrder ==
    LET sa == SummaryOf("fees=0")
        sb == SummaryOf("fees=1")
    IN /\ \A p \in Attempts :
            LET a == att[p]
            IN /\ a.builds > 0 =>
                    /\ Len(ResultsOf(p[1])) >= p[2]
                    /\ p[1] = "B" => Len(results) = 6
               /\ a.tx # None =>
                    FeeFields(a.tx[1])
                       = (IF p[1] = "A" THEN {Some(0)} ELSE {Some(1)})
       /\ \A s \in Series :
            /\ \A i \in DOMAIN ResultsOf(s) :
                 ResultsOf(s)[i][1] = i - 1 /\ att[<<s, i - 1>>].builds > 0
            /\ LET ls == IF s = "A" THEN sa ELSE sb
               IN ls # <<>> =>
                     /\ Len(ls) = 6
                     /\ Len(ResultsOf(s)) = 6
                     /\ \A i \in 1..6 :
                          ls[i].t = i - 1 /\ ls[i].status = ResultsOf(s)[i][2]
       /\ att[<<"B", 0>>].builds > 0 => Len(sa) = 6
       /\ sb # <<>> => pc = "done"
       /\ \A i \in 1..(Len(out) - 1) :
            out[i].series = "fees=1" => out[i + 1].series = "fees=1"

\* series B has submitted its selector 2 after the summary of series A
C9_Witness ==
    /\ pc = "B_send"
    /\ tx_type = 2
    /\ att[<<"B", 2>>].tx # None
    /\ Len(SummaryOf("fees=0")) = 6
    /\ SummaryOf("fees=1") = <<>>

\* the state of the attempt (s, t), read off the program's state
St(s, t) ==
    CASE Recorded(s, t) -> "Resolved"
      [] pc = (IF s = "A" THEN "A_await" ELSE "B_await")
            /\ tx_type = t /\ pending # None -> "Submitted"
      [] pc = (IF s = "A" THEN "A_send" ELSE "B_send")
            /\ tx_type = t /\ tx # None -> "Built"
      [] OTHER -> "NotAttempted"

\* one step of attempt (s, t) follows the state machine
AttemptStep(s, t) ==
    LET a == St(s, t)
        b == St(s, t)'
        o == OutcomeOf(s, t)'
    IN a # b =>
         \/ a = "NotAttempted" /\ b = "Built"
         \/ a = "NotAttempted" /\ b = "Resolved" /\ o = "unsupported"
               /\ att'[<<s, t>>].build_err # None
         \/ a = "Built" /\ b = "Submitted"
               /\ att'[<<s, t>>].send_ret = Some(Ok("hash"))
         \/ a = "Built" /\ b = "Resolved"
               /\ \E e \in SubmitMsgs :
                    /\ att'[<<s, t>>].send_ret = Some(Err(e))
                    /\ o = "submit error: " \o e
         \/ a = "Submitted" /\ b = "Resolved"
               /\ o \in {"success", "failed", "unknown", "pending"}
                          \cup {"await error: " \o e : e \in AwaitMsgs}

\* what holds of every attempt in every state
AttemptInv ==
    \A p \in Attempts :
       LET a == att[p]
       IN /\ Cardinality(PlacesOf(p[1], p[2])) <= 1
          /\ a.builds <= 1 /\ a.sends <= 1 /\ a.awaits <= 1
          /\ a.sends > 0 => a.builds > 0 /\ a.tx # None /\ a.build_err = None
          /\ a.awaits > 0 => a.sends > 0 /\ a.send_ret = Some(Ok("hash"))
          /\ pc = "done" => St(p[1], p[2]) = "Resolved"

\* C10: every attempt moves only along NotAttempted -> Built -> Submitted ->
\* Resolved: to Resolved("unsupported") from NotAttempted when build_tx
\* fails, to Resolved("submit error: ..") from Built when the submission
\* fails, to Resolved with the receipt's classification or the await error
\* from Submitted; it is submitted only once built, awaited only once
\* submitted successfully, recorded at most once, and resolved when main ends.
C10_AttemptMachine ==
    /\ []AttemptInv
    /\ [][\A p \in Attempts : AttemptStep(p[1], p[2])]_vars

\* a finished run whose attempts took each of the three ways to Resolved
C10_Witness ==
    /\ pc = "done"
    /\ OutcomeOf("A", 0) = "submit error: nonce too low"
    /\ OutcomeOf("A", 1) = "failed"
    /\ OutcomeOf("A", 3) = "unsupported"
    /\ OutcomeOf("B", 2) = "await error: connection closed"

---------------------------------------------------------------------------
\* nothing has been built, submitted, awaited, recorded or printed
NothingDone ==
    /\ att = [p \in Attempts |-> NoAttempt]
    /\ tx = None
    /\ pending = None
    /\ results = <<>>
    /\ results_one = <<>>
    /\ out = <<>>
    /\ cfg = None

\* the required variable main finds missing first
FirstMissing(e) ==
    CASE e["RPC_URL"] = "unset" -> "RPC_URL"
      [] e["PRIVATE_KEY"] = "unset" -> "PRIVATE_KEY"
      [] e["TO_ADDRESS"] = "unset" -> "TO_ADDRESS"

\* a required variable is missing from the environment main is started in
SomeMissing == pc = "startup" /\ \E v \in Required : env[v] = "unset"

\* main ends with the given error, the environment as it was
FatalWith(text) ==
    /\ pc' = "fatal"
    /\ exit' = Some(Err(text))
    /\ env' = env

\* C11: with a required variable missing, the one step main takes ends the
\* run with the error "<variable> not set" naming a missing variable (the
\* first in the order RPC_URL, PRIVATE_KEY, TO_ADDRESS); nothing has been
\* built, submitted, recorded or printed then, nor is anything afterwards.
C11_MissingRequired ==
    /\ [][SomeMissing =>
             /\ FatalWith(FirstMissing(env) \o " not set")
             /\ env[FirstMissing(env)] = "unset"
             /\ NothingDone']_vars
    /\ [](pc = "fatal" => NothingDone)

\* RPC_URL is set, PRIVATE_KEY and TO_ADDRESS are not: the run has ended
\* naming PRIVATE_KEY
C11_Witness ==
    /\ pc = "fatal"
    /\ env["RPC_URL"] = "good"
    /\ env["PRIVATE_KEY"] = "unset"
    /\ env["TO_ADDRESS"] = "unset"
    /\ exit = Some(Err("PRIVATE_KEY not set"))
    /\ NothingDone

\* the variables whose text main parses with `?`
Parsed == {"CHAIN_ID", "AMOUNT_ETH", "TO_ADDRESS", "PRIVATE_KEY", "RPC_URL"}

\* C12 as stated: an invalid value of any variable main reads ends the run
\* at startup.
C12_AnyInvalidFatal ==
    [][(pc = "startup" /\ \E v \in Required \cup Optional : env[v] = "bad")
          => pc' = "fatal"]_vars

\* C12, amended: an invalid value of CHAIN_ID, AMOUNT_ETH, TO_ADDRESS,
\* PRIVATE_KEY or RPC_URL ends the run at startup with an error, before
\* anything is built or submitted; an invalid FEE_MULTIPLIER or PRIORITY_GWEI
\* does not: with the required variables valid and CHAIN_ID and AMOUNT_ETH
\* not invalid the run starts whatever these two hold; and once startup has
\* succeeded nothing ends the run with an error.
C12_InvalidParsedFatal ==
    /\ [][(pc = "startup" /\ \E v \in Parsed : env[v] = "bad")
             => /\ pc' = "fatal"
                /\ exit' # None /\ ~exit'[1].ok
                /\ NothingDone']_vars
    /\ [][(/\ pc = "startup"
           /\ \A v \in Required : env[v] = "good"
           /\ env["CHAIN_ID"] # "bad"
           /\ env["AMOUNT_ETH"] # "bad")
             => pc' = "A_build" /\ cfg' # None /\ exit' = None]_vars
    /\ [](cfg # None => pc # "fatal" /\ exit \in {None, Some(Ok(<<>>))})
    /\ [](pc = "fatal" => NothingDone)

\* only CHAIN_ID is invalid: the run has ended on its parse error
C12_Witness ==
    /\ pc = "fatal"
    /\ \A v \in Required : env[v] = "good"
    /\ env["CHAIN_ID"] = "bad"
    /\ env["FEE_MULTIPLIER"] = "bad"
    /\ exit = Some(Err("<ParseIntError>"))

---------------------------------------------------------------------------
\* the fee fields main gives build_tx in a series
FeesOf(s) == IF s = "A" THEN FeesA ELSE FeesB

\* the environments that differ from e at most in PRIORITY_GWEI and
\* FEE_MULTIPLIER
FeeVariants(e) ==
    {[e EXCEPT !["PRIORITY_GWEI"] = a, !["FEE_MULTIPLIER"] = b] :
        a \in EnvVals, b \in EnvVals}

\* the step taken is the step startup takes in environment e
StartedFrom(e) ==
    IF StartupError(e) # None
    THEN /\ pc' = "fatal"
         /\ exit' = Some(Err(StartupError(e)[1]))
         /\ cfg' = None
    ELSE /\ pc' = "A_build"
         /\ exit' = None
         /\ cfg' = Some([from |-> "from", to |-> "to", value |-> ParsedAmount(e)])
         /\ env' = Consumed

\* the outcome that follows from what the collaborators returned for an
\* attempt a
OutcomeFrom(a) ==
    CASE a.build_err # None -> "unsupported"
      [] a.send_ret # None /\ ~a.send_ret[1].ok ->
            "submit error: " \o a.send_ret[1].err
      [] a.await_ret # None /\ ~a.await_ret[1].ok ->
            "await error: " \o a.await_ret[1].err
      [] a.await_ret # None /\ a.await_ret[1].val = None -> "pending"
      [] a.await_ret # None /\ a.await_ret[1].val = Some(None) -> "unknown"
      [] a.await_ret # None /\ a.await_ret[1].val = Some(Some(1)) -> "success"
      [] a.await_ret # None -> "failed"

\* every transaction built so far is the one build_tx makes of the selector,
\* the sender, recipient and value of cfg and the fee fields of the series,
\* and its fee fields are all 0 in series A and all 1 in series B
C13_BuiltFromSeries ==
    \A p \in Attempts :
       LET a == att[p]
           f == FeesOf(p[1])
       IN a.tx # None =>
            /\ a.tx[1] = build_tx(p[2], cfg[1].from, cfg[1].to, cfg[1].value,
                                  f.suggested_gas_price,
                                  f.max_priority_fee_per_gas,
                                  f.max_fee_per_gas).val
            /\ FeeFields(a.tx[1]) = {Some(IF p[1] = "A" THEN 0 ELSE 1)}

\* every recorded outcome is the one that follows from what the collaborators
\* returned for its attempt
C13_OutcomeFromResponses ==
    \A s \in Series : \A i \in DOMAIN ResultsOf(s) :
       ResultsOf(s)[i][2] = OutcomeFrom(att[<<s, ResultsOf(s)[i][1]>>])

\* C13: the fee fields of every transaction built depend only on the series
\* (0 in series A, 1 in series B).  The step startup takes is the same in
\* every environment that differs only in PRIORITY_GWEI and FEE_MULTIPLIER,
\* and after it nothing of the environment is left; every transaction built
\* is a function of the selector, the series and cfg alone, and every outcome
\* recorded a function of the collaborators' responses alone: so two runs
\* that differ only in these two variables build the same transactions and,
\* on the same responses, record the same outcomes.
C13_FeeConfigDead ==
    /\ [][pc = "startup" => \A e \in FeeVariants(env) : StartedFrom(e)]_vars
    /\ [](pc \notin {"startup", "fatal"} => env = Consumed)
    /\ []C13_BuiltFromSeries
    /\ []C13_OutcomeFromResponses

\* a finished run: three transactions were built with fees 0, three with
\* fees 1, and nothing of the environment was left when they were
C13_Witness ==
    /\ pc = "done"
    /\ env = Consumed
    /\ \A t \in {0, 1, 2} :
         /\ FeeFields(att[<<"A", t>>].tx[1]) = {Some(0)}
         /\ FeeFields(att[<<"B", t>>].tx[1]) = {Some(1)}
    /\ OutcomeOf("A", 2) = "success"
    /\ OutcomeOf("B", 2) = "failed"

---------------------------------------------------------------------------
\* the address 00 07 0e .. 85: seed 0, stride 1
C14_Example == [i \in 1..20 |-> (i - 1) * 7]

\* C14 as stated: for a 20-byte address format_address returns at most 12
\* characters, of the form "0x", the first 8 hex characters, an ellipsis and
\* the last 4 hex characters.
C14_AsStated ==
    ret # None =>
       LET h == LowerHex(args[1])
       IN /\ Len(h) = 40
          /\ Len(ret[1]) <= 12
          /\ ret[1] = <<"0", "x">> \o SubSeq(h, 1, 8) \o <<Ellipsis>>
                         \o SubSeq(h, 37, 40)

\* C14, amended: the rendered form of a 20-byte address is "0x" and 40 hex
\* characters, 42 characters, so it is always truncated; format_address
\* returns 13 characters: the first 8 characters of the rendered form ("0x"
\* and the first 6 hex characters), an ellipsis and the last 4 hex
\* characters.  The address 00 07 0e 15 .. 7e 85 gives 0x00070e(U+2026)7e85.
C14_Truncated ==
    ret # None =>
       LET h == LowerHex(args[1])
           s == <<"0", "x">> \o h
       IN /\ Len(h) = 40
          /\ \A i \in 1..40 : \E d \in 1..16 : h[i] = HexDigits[d]
          /\ Len(s) = 42
          /\ Len(s) > 12
          /\ ret[1] # s
          /\ Len(ret[1]) = 13
          /\ ret[1] = <<"0", "x">> \o SubSeq(h, 1, 6) \o <<Ellipsis>>
                         \o SubSeq(h, 37, 40)
          /\ args[1] = C14_Example =>
                ret[1] = <<"0", "x", "0", "0", "0", "7", "0", "e", Ellipsis,
                           "7", "e", "8", "5">>

\* format_address has returned for an address whose bytes differ, letters
\* among its digits
C14_Witness ==
    /\ pc = "format_returned"
    /\ args[1][1] = 255
    /\ args[1][2] = 6
    /\ ret = Some(<<"0", "x", "f", "f", "0", "6", "0", "d", Ellipsis,
                    "7", "d", "8", "4">>)

---------------------------------------------------------------------------
\* a is a prefix of b
IsPrefix(a, b) == Len(a) <= Len(b) /\ SubSeq(b, 1, Len(a)) = a

\* in one step the result vector of series s keeps every pair it has, in
\* place, and gets at most one more
AppendOnly(s) ==
    /\ IsPrefix(ResultsOf(s), ResultsOf(s)')
    /\ Len(ResultsOf(s)') <= Len(ResultsOf(s)) + 1

\* C15: the result vector of each series is append-only: every step leaves
\* it a prefix of its next value (no recorded pair is changed, removed or
\* moved) and adds at most one pair; and no selector is ever in the vector of
\* a series twice.
C15_AppendOnly ==
    /\ [][\A s \in Series : AppendOnly(s)]_vars
    /\ [](\A s \in Series : \A i, j \in DOMAIN ResultsOf(s) :
             ResultsOf(s)[i][1] = ResultsOf(s)[j][1] => i = j)

\* series B is at its selector 2 with the 6 outcomes of series A and 2 of
\* its own recorded
C15_Witness ==
    /\ pc = "B_send"
    /\ tx_type = 2
    /\ results = <<<<0, "pending">>, <<1, "success">>, <<2, "unknown">>,
                   <<3, "unsupported">>, <<4, "unsupported">>,
                   <<5, "unsupported">>>>
    /\ results_one = <<<<0, "failed">>, <<1, "pending">>>>

---------------------------------------------------------------------------
\* main is suspended in series s: a submission or a wait has not returned
Suspended(s) ==
    pc \in (IF s = "A" THEN {"A_send", "A_await"} ELSE {"B_send", "B_await"})

\* the step taken is a return of the call main is suspended in
Returns(s) ==
    LET a == att[<<s, tx_type>>]
        b == att'[<<s, tx_type>>]
    IN IF pc \in {"A_send", "B_send"}
       THEN a.send_ret = None /\ b.send_ret # None
       ELSE a.await_ret = None /\ b.await_ret # None

\* while main is suspended in series s nothing later has been attempted and
\* the summary of the series is not printed
Stalled(s) ==
    /\ \A t \in 0..5 : t > tx_type => att[<<s, t>>] = NoAttempt
    /\ s = "A" => \A t \in 0..5 : att[<<"B", t>>] = NoAttempt
    /\ \A i \in DOMAIN out : out[i].series # HeadingOf(s)
    /\ Len(ResultsOf(s)) = tx_type
    /\ exit = None

\* C16: when every submission and every wait returns, every run ends: at
\* startup with an error, or with Ok after printing both summaries, 12
\* lines; and a run that got past startup never ends with an error, so it
\* ends the second way.  And there is no timeout: while a submission or a
\* wait has not returned, no later selector has been attempted, the summary
\* of the series is not printed and main has not ended, and the only step
\* that leaves such a state is a return of that call.
C16_TerminatesOrStalls ==
    /\ <>(\/ pc = "fatal" /\ cfg = None
          \/ pc = "done" /\ exit = Some(Ok(<<>>)) /\ Len(out) = 12)
    /\ [](cfg # None => pc # "fatal")
    /\ [](\A s \in Series : Suspended(s) => Stalled(s))
    /\ [][\A s \in Series : Suspended(s) => Returns(s)]_vars

\* series B waits on the receipt of its selector 1, which has not come
C16_Witness ==
    /\ pc = "B_await"
    /\ tx_type = 1
    /\ att[<<"B", 1>>].awaits = 1
    /\ att[<<"B", 1>>].await_ret = None
    /\ att[<<"B", 2>>] = NoAttempt
    /\ Len(out) = 6

---------------------------------------------------------------------------
(* One loop over the fee profiles <<"A", "B">>: the body written once, with
   the series as its parameter. *)

\* the control point of the loop body in series s
PcOf(s, point) == IF s = "A" THEN "A_" \o point ELSE "B_" \o point

\* the outcome o is appended for the selector the loop is at, in series s
Push(s, o) ==
    IF s = "A"
    THEN results' = Append(results, <<tx_type, o>>) /\ results_one' = results_one
    ELSE results_one' = Append(results_one, <<tx_type, o>>) /\ results' = results

\* what build_tx returns for the selector the loop is at, in series s
Built(s) ==
    build_tx(tx_type, cfg[1].from, cfg[1].to, cfg[1].value,
             FeesOf(s).suggested_gas_price, FeesOf(s).max_priority_fee_per_gas,
             FeesOf(s).max_fee_per_gas)

LoopBuildOk(s) ==
    /\ pc = PcOf(s, "build")
    /\ tx_type <= LastType
    /\ Built(s).ok
    /\ tx' = Some(Built(s).val)
    /\ att' = [att EXCEPT ![<<s, tx_type>>] =
                  [@ EXCEPT !.builds = @ + 1, !.tx = Some(Built(s).val),
                            !.sends = @ + 1]]
    /\ pc' = PcOf(s, "send")
    /\ UNCHANGED <<env, exit, cfg, tx_type, pending, results, results_one, out,
                   args, ret>>

LoopBuildErr(s) ==
    /\ pc = PcOf(s, "build")
    /\ tx_type <= LastType
    /\ ~Built(s).ok
    /\ att' = [att EXCEPT ![<<s, tx_type>>] =
                  [@ EXCEPT !.builds = @ + 1, !.build_err = Some(Built(s).err)]]
    /\ Push(s, "unsupported")
    /\ tx_type' = tx_type + 1
    /\ UNCHANGED <<pc, env, exit, cfg, tx, pending, out, args, ret>>

LoopSendOk(s) ==
    /\ pc = PcOf(s, "send")
    /\ att' = [att EXCEPT ![<<s, tx_type>>] =
                  [@ EXCEPT !.send_ret = Some(Ok("hash")), !.awaits = @ + 1]]
    /\ pending' = Some("hash")
    /\ tx' = None
    /\ pc' = PcOf(s, "await")
    /\ UNCHANGED <<env, exit, cfg, tx_type, results, results_one, out, args, ret>>

LoopSendErr(s) ==
    /\ pc = PcOf(s, "send")
    /\ \E e \in SubmitMsgs :
         /\ Push(s, SubmitErrorText(e))
         /\ att' = [att EXCEPT ![<<s, tx_type>>] =
                       [@ EXCEPT !.send_ret = Some(Err(e))]]
    /\ tx' = None
    /\ tx_type' = tx_type + 1
    /\ pc' = PcOf(s, "build")
    /\ UNCHANGED <<env, exit, cfg, pending, out, args, ret>>

\* the wait returned r, recorded as the outcome o
LoopAwaited(s, r, o) ==
    /\ pc = PcOf(s, "await")
    /\ Push(s, o)
    /\ att' = [att EXCEPT ![<<s, tx_type>>] = [@ EXCEPT !.await_ret = Some(r)]]
    /\ pending' = None
    /\ tx_type' = tx_type + 1
    /\ pc' = PcOf(s, "build")
    /\ UNCHANGED <<env, exit, cfg, tx, out, args, ret>>

LoopAwait(s) ==
    \/ \E status \in Statuses :
          LoopAwaited(s, Ok(Some(status)), ReceiptStatus(status))
    \/ LoopAwaited(s, Ok(None), "pending")
    \/ \E e \in AwaitMsgs : LoopAwaited(s, Err(e), AwaitErrorText(e))

\* the loop body is over for series s: its summary, then the next profile
\* or the end
LoopSummary(s) ==
    /\ pc = PcOf(s, "build")
    /\ tx_type > LastType
    /\ out' = out \o SummaryLines(HeadingOf(s), ResultsOf(s))
    /\ IF s = "A"
       THEN /\ results_one' = <<>>
            /\ tx_type' = 0
            /\ pc' = PcOf("B", "build")
            /\ UNCHANGED <<exit, results>>
       ELSE /\ exit' = Some(Ok(<<>>))
            /\ pc' = "done"
            /\ UNCHANGED <<tx_type, results, results_one>>
    /\ UNCHANGED <<env, cfg, tx, pending, att, args, ret>>

LoopNext ==
    \/ StartupFatal
    \/ StartupOk
    \/ \E s \in Series :
          \/ LoopBuildOk(s)
          \/ LoopBuildErr(s)
          \/ LoopSendOk(s)
          \/ LoopSendErr(s)
          \/ LoopAwait(s)
          \/ LoopSummary(s)

\* the selectors whose attempts got the same responses in both series
SameResponses ==
    {t \in 0..5 : /\ att[<<"A", t>>].send_ret = att[<<"B", t>>].send_ret
                  /\ att[<<"A", t>>].await_ret = att[<<"B", t>>].await_ret}

\* a built transaction without its fee fields
Unpriced(x) ==
    IF x = None THEN None
    ELSE [type |-> x[1].type, from |-> x[1].req.from, to |-> x[1].req.to,
          value |-> x[1].req.value]

\* C17: the loop of series B is the loop of series A with the fee profile
\* replaced.  Every step of main is a step of the one loop body
\* parametrized by the series, and main can take every step that loop can;
\* and for every selector both series have recorded with the same responses
\* of the collaborators, the two attempts made the same calls, built the same
\* transaction but for its fee fields, and recorded the same outcome at the
\* same place.
C17_OneLoop ==
    /\ [][LoopNext]_vars
    /\ [](~ENABLED (LoopNext /\ ~Next))
    /\ [](\A t \in SameResponses :
            (Recorded("A", t) /\ Recorded("B", t)) =>
               LET a == att[<<"A", t>>]
                   b == att[<<"B", t>>]
               IN /\ results[t + 1] = results_one[t + 1]
                  /\ a.builds = b.builds /\ a.sends = b.sends /\ a.awaits = b.awaits
                  /\ a.build_err = b.build_err
                  /\ Unpriced(a.tx) = Unpriced(b.tx))

\* a finished run in which the node answered series B as it answered series
\* A, one selector apart
C17_Witness ==
    /\ pc = "done"
    /\ SameResponses = {0, 1, 3, 4, 5}
    /\ att[<<"A", 0>>].await_ret = Some(Err("connection closed"))
    /\ att[<<"A", 1>>].send_ret = Some(Err("nonce too low"))
    /\ results[3] # results_one[3]

---------------------------------------------------------------------------
\* the text of an unknown-type error
IsUnknownMsg(e) == Len(e) >= 16 /\ SubSeq(e, 1, 16) = "unknown tx type "

\* the selectors built so far are in 0..5, the failed builds are those of 3, 4
\* and 5 and failed with the unsupported-type error, and the outcomes
\* "unsupported" are those of 3, 4 and 5
C18_InRange ==
    /\ tx_type \in 0..6
    /\ pc \in {"A_send", "A_await", "B_send", "B_await"} => tx_type \in 0..5
    /\ \A p \in DOMAIN att :
         /\ att[p].builds > 0 => p[2] \in 0..5
         /\ att[p].build_err # None =>
               /\ p[2] \in {3, 4, 5}
               /\ ~IsUnknownMsg(att[p].build_err[1])
               /\ att[p].build_err[1] = UnsupportedText(p[2])
    /\ \A s \in Series : \A i \in DOMAIN ResultsOf(s) :
         LET r == ResultsOf(s)[i]
         IN /\ r[1] \in 0..5
            /\ r[2] = "unsupported" <=> r[1] \in {3, 4, 5}

\* C18: main calls build_tx with selectors 0..5 only, so no build in a run
\* fails with the unknown-type error: a failed build is one of selector 3, 4
\* or 5 and failed with the unsupported-type error; an outcome is
\* "unsupported" exactly when its selector is 3, 4 or 5, so selectors 0, 1
\* and 2 never get it.  A step that calls build_tx calls it with the selector
\* the loop is at, which is in 0..5.
C18_SelectorsInRange ==
    /\ []C18_InRange
    /\ [][\A p \in Attempts :
            att'[p].builds # att[p].builds => p[2] = tx_type /\ tx_type \in 0..5]_vars

\* the loop of series B has gone through its last selector, 5
C18_Witness ==
    /\ pc = "B_build"
    /\ tx_type = 6
    /\ att[<<"B", 5>>].build_err = Some(UnsupportedText(5))
    /\ results_one[6] = <<5, "unsupported">>
    /\ results_one[1][2] = "success"

\* the attempts whose submission was issued
Submissions == {p \in Attempts : att[p].sends > 0}

\* what C19 says of a state
C19_Counts ==
    /\ \A p \in Attempts :
         /\ att[p].sends <= 1
         /\ att[p].awaits <= 1
         /\ att[p].awaits = 1 => att[p].send_ret = Some(Ok("hash"))
    /\ pc = "done" =>
         /\ Submissions = Series \X {0, 1, 2}
         /\ Cardinality(Submissions) = 6
         /\ \A p \in Submissions :
              /\ att[p].sends = 1
              /\ att[p].send_ret # None
              /\ att[p].awaits = (IF att[p].send_ret[1].ok THEN 1 ELSE 0)
         /\ Cardinality({p \in Attempts : att[p].awaits = 1})
               = Cardinality({p \in Submissions : att[p].send_ret[1].ok})

\* C19: a finished run has issued exactly 6 submissions, one for each of the
\* selectors 0, 1, 2 of each series and none for 3, 4, 5; it has waited as
\* many times as submissions succeeded, once on each of them and on no
\* other; and at no time has a submission been issued or awaited twice for
\* the same series and selector: a step issues a submission or a wait only
\* for an attempt that has none yet.
C19_SixSubmissions ==
    /\ []C19_Counts
    /\ [][\A p \in Attempts :
            /\ att'[p].sends # att[p].sends =>
                  att[p].sends = 0 /\ att'[p].sends = 1
            /\ att'[p].awaits # att[p].awaits =>
                  att[p].awaits = 0 /\ att'[p].awaits = 1]_vars

\* a finished run: 6 submissions, 4 of them succeeded and were awaited
C19_Witness ==
    /\ pc = "done"
    /\ Cardinality(Submissions) = 6
    /\ {p \in Attempts : att[p].awaits = 1}
          = {<<"A", 0>>, <<"A", 2>>, <<"B", 1>>, <<"B", 2>>}
    /\ att[<<"A", 1>>].send_ret = Some(Err("nonce too low"))
    /\ att[<<"B", 0>>].send_ret = Some(Err("nonce too low"))

\* what C20 says of a state
C20_Submitted ==
    /\ \A p \in Attempts :
         LET a == att[p]
         IN a.sends > 0 =>
              /\ a.tx # None
              /\ p[2] \in {0, 1} =>
                    /\ "gas_price" \in DOMAIN a.tx[1].req
                    /\ a.tx[1].req.gas_price # None
                    /\ a.tx[1].req.gas_price
                          = Some(IF p[1] = "A" THEN 0 ELSE 1)
              /\ a.tx[1].req.from = Some(cfg[1].from)
              /\ a.tx[1].req.to = Some(cfg[1].to)
              /\ a.tx[1].req.value = Some(cfg[1].value)
    /\ tx # None /\ tx[1].type \in {"Legacy", "Eip2930"} =>
          tx[1].req.gas_price # None
    /\ FeesA.suggested_gas_price = Some(0)
    /\ FeesB.suggested_gas_price = Some(1)

\* C20: both fee profiles have a suggested gas price, so every submitted
\* transaction of selector 0 or 1 carries a gas price, 0 in series A and 1 in
\* series B, never none; and every submitted transaction carries the sender,
\* the recipient and the value main made at startup (cfg), which no step
\* changes: the same for all.
C20_GasPricePresent ==
    /\ []C20_Submitted
    /\ [][cfg # None => cfg' = cfg]_vars

\* the access-list transaction of series B is being submitted, gas price 1,
\* after the legacy transaction of series A, gas price 0
C20_Witness ==
    /\ pc = "B_send"
    /\ tx_type = 1
    /\ tx[1].type = "Eip2930"
    /\ tx[1].req.gas_price = Some(1)
    /\ att[<<"A", 0>>].tx[1].req.gas_price = Some(0)
    /\ att[<<"A", 0>>].tx[1].req.value = Some("1000000000000000")

====
